---- MODULE Spec2Model ----
(***************************************************************************)
(* Model of tg's view layer: View.get_keys (key decoding),                 *)
(* MsgView._collect_msgs_to_draw (message windowing), ChatView.draw (chat  *)
(* list windowing), MsgFormatter.flags and MsgFormatter.format (message    *)
(* rendering).                                                             *)
(*                                                                         *)
(* Strings are sequences of code points (Integers); "d" is <<100>>.        *)
(***************************************************************************)
EXTENDS Integers, Sequences, FiniteSets, TLC

VARIABLES
    \* ---- View.get_keys ----
    layout_mapping,   \* config.LAYOUT_MAPPING is set (truthy)
    legacy_locale,    \* the terminal runs a non-UTF-8 (legacy 8-bit) locale
    kpc,              \* "idle" | "getch" | "second_getch" | "returned" | "raised"
    keys,             \* local keys
    repeat_factor,    \* local repeat_factor
    loop_i,           \* iterations of the for loop started so far
    read,             \* the raw codes getch has delivered in this cycle
    lead_ch,          \* ch of the 208/209 branch, waiting for second_ch
    kresult,          \* the returned pair <<repeat count, token>>
    \* ---- MsgView._collect_msgs_to_draw ----
    mpc,              \* "idle" | "loop" | "returned"
    msgs,             \* heights of the blocks; block k has index k - 1
    current_msg_idx,  \* focal index
    h,                \* MsgView.h
    LATEST_MSG_ON_TOP,\* config.LATEST_MSG_ON_TOP
    collected_items,  \* sequence of [idx, lines]; a line is <<idx, k>>
    lines_available,
    msg_pos,          \* position in msgs of the block last taken by the loop
    \* ---- MsgFormatter.flags ----
    fpc,              \* "idle" | "call" | "returned"
    fin,              \* the message, chat and model fields flags reads
    flags,            \* the local list flags
    flags_str,        \* the returned string (labels and " " separators)
    \* ---- MsgFormatter.format ----
    rpc,              \* "idle" | "call" | "body" | "reply" | "returned" | "raised"
    rin,              \* the message fields format reads
    rmsg,             \* local msg (a string)
    rdoc,             \* the returned document: sequence of lines
    \* ---- ChatView.draw ----
    cpc,              \* "idle" | "loop" | "drawn"
    chats,            \* the chat list; the chat at list index i is named i
    current,          \* focal index
    chat_h,           \* ChatView.h
    offset,           \* local offset
    limit,            \* local limit
    chat_pos,         \* items of chats[offset:limit+offset] taken so far
    drawn             \* what was drawn: [chat, rows, is_selected] per item

kvars == <<layout_mapping, legacy_locale, kpc, keys, repeat_factor, loop_i,
           read, lead_ch, kresult>>
mvars == <<mpc, msgs, current_msg_idx, h, LATEST_MSG_ON_TOP, collected_items,
           lines_available, msg_pos>>
fvars == <<fpc, fin, flags, flags_str>>
rvars == <<rpc, rin, rmsg, rdoc>>
cvars == <<cpc, chats, current, chat_h, offset, limit, chat_pos, drawn>>
vars == <<kvars, mvars, fvars, rvars, cvars>>

RECURSIVE Concat(_)
Concat(ss) == IF ss = <<>> THEN <<>> ELSE Head(ss) \o Concat(Tail(ss))

startswith(p, s) == Len(s) <= Len(p) /\ SubSeq(p, 1, Len(s)) = s

(***************************************************************************)
(* View.get_keys                                                           *)
(***************************************************************************)
MAX_KEYBINDING_LENGTH == 5

\* "dd", "sd", "sp", "sa", "sv", "sn", "ns", "ng", "bp"
BaseKeybindings ==
    << <<100, 100>>, <<115, 100>>, <<115, 112>>, <<115, 97>>, <<115, 118>>,
       <<115, 110>>, <<110, 115>>, <<110, 103>>, <<98, 112>> >>

\* config.LAYOUT_MAPPING for the letters the bindings use (Russian layout):
\* d->U+0432, s->U+044B, p->U+0437, a->U+0444, v->U+043C, n->U+0442,
\* g->U+043F, b->U+0438
LAYOUT_MAPPING(char) ==
    CASE char = 100 -> 1074
      [] char = 115 -> 1099
      [] char = 112 -> 1079
      [] char = 97  -> 1092
      [] char = 118 -> 1084
      [] char = 110 -> 1090
      [] char = 103 -> 1087
      [] char = 98  -> 1080

mapped_bindings ==
    [k \in 1..Len(BaseKeybindings) |->
        [j \in 1..Len(BaseKeybindings[k]) |-> LAYOUT_MAPPING(BaseKeybindings[k][j])]]

MULTICHAR_KEYBINDINGS ==
    IF layout_mapping THEN BaseKeybindings \o mapped_bindings ELSE BaseKeybindings

UNKNOWN == <<85, 78, 75, 78, 79, 87, 78>>

\* The raw codes getch delivers in the model: no input (-1), ESC, "0", "3",
\* "A", the letters of the bindings, "x", the second bytes of the mapped
\* letters, a high byte (200), the lead bytes 208 and 209, KEY_RESIZE (410).
Codes ==
    {-1, 27, 48, 51, 65, 97, 98, 100, 103, 110, 112, 115, 118, 120,
     130, 132, 139, 178, 183, 184, 188, 191, 200, 208, 209, 410}

\* variant: unctrl accepting every code
unctrl_never_raises(ch) == FALSE

\* curses.unctrl(ch) raises (OverflowError) for a negative ch.
unctrl_raises(ch) == ch < 0

\* The bytes of curses.unctrl(ch): ncurses looks at the low 8 bits of ch.
unctrl(ch) ==
    LET c == ch % 256 IN
    IF c < 32 THEN <<94, c + 64>>
    ELSE IF c < 127 THEN <<c>>
    ELSE IF c = 127 THEN <<94, 63>>
    ELSE IF c < 160 THEN <<126, c - 64>>
    ELSE IF legacy_locale THEN <<c>>
    ELSE IF c = 255 THEN <<126, 63>>
    ELSE <<77, 45, c - 128>>

\* bytes.decode() (utf-8) of unctrl's result fails on a byte above 127.
decode_raises(bytes) == \E k \in 1..Len(bytes) : bytes[k] > 127

\* key.isdigit() on a decoded unctrl result (ASCII only)
isdigit(key) == key # <<>> /\ \A k \in 1..Len(key) : key[k] \in 48..57

\* int.to_bytes() (length 1) raises OverflowError outside 0..255
to_bytes_raises(n) == n < 0 \/ n > 255

\* (ch.to_bytes() + second_ch.to_bytes()).decode('utf-8') with ch in {208, 209}:
\* a two-byte sequence is valid only with a continuation byte 0x80..0xBF.
two_byte_raises(ch, second_ch) ==
    to_bytes_raises(second_ch) \/ second_ch < 128 \/ second_ch > 191

two_byte_decode(ch, second_ch) == <<(ch - 192) * 64 + (second_ch - 128)>>

\* variant of the match test without "p == keys"
MatchDoneNoExact(ks) ==
    \A k \in 1..Len(MULTICHAR_KEYBINDINGS) :
        ~startswith(MULTICHAR_KEYBINDINGS[k], ks)

\* variant of the match test that ends on an exact match only
MatchDoneExactOnly(ks) ==
    \E k \in 1..Len(MULTICHAR_KEYBINDINGS) : MULTICHAR_KEYBINDINGS[k] = ks

\* all(p == keys or not p.startswith(keys) for p in MULTICHAR_KEYBINDINGS)
MatchDone(ks) ==
    \A k \in 1..Len(MULTICHAR_KEYBINDINGS) :
        \/ MULTICHAR_KEYBINDINGS[k] = ks
        \/ ~startswith(MULTICHAR_KEYBINDINGS[k], ks)

RECURSIVE int(_)
int(digits) ==
    IF digits = <<>> THEN 0
    ELSE 10 * int(SubSeq(digits, 1, Len(digits) - 1)) + (digits[Len(digits)] - 48)

\* utils.num(value, default): the number value spells, default when it spells none
num(value, default) == IF isdigit(value) THEN int(value) ELSE default

\* return cast(int, num(repeat_factor, default=1)), keys or "UNKNOWN"
Returned(rf, ks) == <<num(rf, 1), IF ks = <<>> THEN UNKNOWN ELSE ks>>

\* variant: a loop of one iteration more
LoopNextOneMore(rf, ks) ==
    IF loop_i > MAX_KEYBINDING_LENGTH
    THEN kpc' = "returned" /\ kresult' = Returned(rf, ks) /\ UNCHANGED loop_i
    ELSE kpc' = "getch" /\ loop_i' = loop_i + 1 /\ UNCHANGED kresult

\* The end of one loop iteration that did not break: the for loop takes the
\* next iteration, or is exhausted and get_keys returns.
LoopNext(rf, ks) ==
    IF loop_i >= MAX_KEYBINDING_LENGTH
    THEN kpc' = "returned" /\ kresult' = Returned(rf, ks) /\ UNCHANGED loop_i
    ELSE kpc' = "getch" /\ loop_i' = loop_i + 1 /\ UNCHANGED kresult

\* keys += key
AddKey(key, ks) == ks \o key

\* keys += key, then the match test: break, or the next iteration
Accept(key) ==
    /\ keys' = AddKey(key, keys)
    /\ lead_ch' = 0
    /\ UNCHANGED repeat_factor
    /\ IF MatchDone(keys')
       THEN kpc' = "returned" /\ kresult' = Returned(repeat_factor, keys')
            /\ UNCHANGED loop_i
       ELSE LoopNext(repeat_factor, keys')

\* get_keys is called: keys = repeat_factor = "", the loop starts
GetKeysCall ==
    /\ kpc = "idle"
    /\ kpc' = "getch"
    /\ keys' = <<>> /\ repeat_factor' = <<>>
    /\ loop_i' = 1
    /\ read' = <<>>
    /\ lead_ch' = 0
    /\ kresult' = <<>>
    /\ UNCHANGED <<layout_mapping, legacy_locale>>

\* ch = getch() with ch = 208 or 209: the second getch follows
GetchLead ==
    /\ kpc = "getch"
    /\ \E ch \in {208, 209} :
        /\ read' = Append(read, ch)
        /\ lead_ch' = ch
    /\ kpc' = "second_getch"
    /\ UNCHANGED <<layout_mapping, legacy_locale, keys, repeat_factor, loop_i, kresult>>

\* second_ch = getch(); the two bytes are decoded outside any try
GetchSecond ==
    /\ kpc = "second_getch"
    /\ \E second_ch \in Codes :
        /\ read' = Append(read, second_ch)
        /\ IF two_byte_raises(lead_ch, second_ch)
           THEN /\ kpc' = "raised"
                /\ UNCHANGED <<keys, repeat_factor, loop_i, lead_ch, kresult>>
           ELSE Accept(two_byte_decode(lead_ch, second_ch))
    /\ UNCHANGED <<layout_mapping, legacy_locale>>

\* ch = getch() with any other code: unctrl, digit test, keys += key
GetchPlain ==
    /\ kpc = "getch"
    /\ \E ch \in Codes \ {208, 209} :
        /\ read' = Append(read, ch)
        /\ IF unctrl_raises(ch) \/ decode_raises(unctrl(ch))
           THEN \* except Exception: break
                /\ kpc' = "returned"
                /\ kresult' = Returned(repeat_factor, keys)
                /\ UNCHANGED <<keys, repeat_factor, loop_i, lead_ch>>
           ELSE IF isdigit(unctrl(ch))
                THEN \* repeat_factor += key; continue
                     /\ repeat_factor' = repeat_factor \o unctrl(ch)
                     /\ UNCHANGED <<keys, lead_ch>>
                     /\ LoopNext(repeat_factor', keys)
                ELSE Accept(unctrl(ch))
    /\ UNCHANGED <<layout_mapping, legacy_locale>>

\* the caller's loop calls get_keys again
GetKeysAgain ==
    /\ kpc \in {"returned"}
    /\ kpc' = "idle"
    /\ keys' = <<>> /\ repeat_factor' = <<>> /\ loop_i' = 0 /\ read' = <<>>
    /\ lead_ch' = 0 /\ kresult' = <<>>
    /\ UNCHANGED <<layout_mapping, legacy_locale>>

KeysIdle ==
    /\ kpc = "idle" /\ keys = <<>> /\ repeat_factor = <<>> /\ loop_i = 0
    /\ read = <<>> /\ lead_ch = 0 /\ kresult = <<>>

MsgsIdle ==
    /\ mpc = "idle" /\ msgs = <<>> /\ current_msg_idx = 0 /\ h = 0
    /\ LATEST_MSG_ON_TOP = FALSE /\ collected_items = <<>>
    /\ lines_available = 0 /\ msg_pos = 0

FlagsIdle == fpc = "idle" /\ fin = <<>> /\ flags = <<>> /\ flags_str = <<>>

FormatIdle == rpc = "idle" /\ rin = <<>> /\ rmsg = <<>> /\ rdoc = <<>>

ChatsIdle ==
    /\ cpc = "idle" /\ chats = <<>> /\ current = 0 /\ chat_h = 0
    /\ offset = 0 /\ limit = 0 /\ chat_pos = 0 /\ drawn = <<>>

InitKeys ==
    /\ layout_mapping \in BOOLEAN
    /\ legacy_locale \in BOOLEAN
    /\ KeysIdle /\ MsgsIdle /\ FlagsIdle /\ FormatIdle /\ ChatsIdle

NextKeys ==
    \/ (GetKeysCall /\ UNCHANGED <<mvars, fvars, rvars, cvars>>)
    \/ (GetchLead /\ UNCHANGED <<mvars, fvars, rvars, cvars>>)
    \/ (GetchSecond /\ UNCHANGED <<mvars, fvars, rvars, cvars>>)
    \/ (GetchPlain /\ UNCHANGED <<mvars, fvars, rvars, cvars>>)
    \/ (GetKeysAgain /\ UNCHANGED <<mvars, fvars, rvars, cvars>>)

SpecKeys == InitKeys /\ [][NextKeys]_vars

(***************************************************************************)
(* MsgView._collect_msgs_to_draw                                           *)
(***************************************************************************)
MaxMsgs == 4
MaxHeight == 3
MaxRows == 5

\* MessagesHeaderFormatter.height
HeaderHeight == 2

Min(a, b) == IF a < b THEN a ELSE b
Max(a, b) == IF a > b THEN a ELSE b
abs(n) == IF n < 0 THEN 0 - n ELSE n

\* Python's s[:n]
SliceTo(s, n) ==
    IF n >= 0 THEN SubSeq(s, 1, Min(n, Len(s)))
    ELSE SubSeq(s, 1, Max(Len(s) + n, 0))

\* Python's s[n:]
SliceFrom(s, n) ==
    IF n >= 0 THEN SubSeq(s, Min(n, Len(s)) + 1, Len(s))
    ELSE SubSeq(s, Max(Len(s) + n, 0) + 1, Len(s))

\* msg_lines = formatter.format(width): the lines of the block at position k
\* of msgs, each line named by its block's index and its number in the block
msg_lines(k) == [j \in 1..msgs[k] |-> <<k - 1, j>>]

\* msg_idx of the block at position k of msgs
msg_idx_at(k) == k - 1

\* variant: the eviction taking the newest block
pop_last(items) ==
    IF Len(items) > 0 THEN SubSeq(items, 1, Len(items) - 1) ELSE items

\* if len(collected_items) > 0: collected_items.pop(0)
pop_first(items) == IF Len(items) > 0 THEN Tail(items) ELSE items

\* the focal block that overflows: msg_lines[:needed_lines+lines_available]
focal_selected_lines(lines, la) == SliceTo(lines, Len(lines) + la)

\* a block after the focal one that overflows (lines 303-315)
after_selected_lines(lines, la) ==
    IF LATEST_MSG_ON_TOP
    THEN SliceTo(lines, abs(la))
    ELSE LET selected_lines_count == Len(lines) - abs(la)
         IN IF selected_lines_count > 0
            THEN SliceFrom(lines, 0 - selected_lines_count)
            ELSE <<>>

Block(idx, lines) == [idx |-> idx, lines |-> lines]

\* _collect_msgs_to_draw is called: the locals before the loop
CollectCall ==
    /\ mpc = "idle"
    /\ collected_items' = <<>>
    /\ lines_available' = h - HeaderHeight
    /\ msg_pos' = 0
    /\ mpc' = IF Len(msgs) = 0 THEN "returned" ELSE "loop"
    /\ UNCHANGED <<msgs, current_msg_idx, h, LATEST_MSG_ON_TOP>>

\* one iteration of "for msg_idx, msg_item in msgs"; the iteration that
\* breaks, or that takes the last block, returns collected_items
CollectStep ==
    /\ mpc = "loop"
    /\ msg_pos < Len(msgs)
    /\ LET k == msg_pos + 1
           msg_idx == msg_idx_at(k)
           lines == msg_lines(k)
           needed_lines == Len(lines)
           la == lines_available - needed_lines
           continue == IF k = Len(msgs) THEN "returned" ELSE "loop"
       IN /\ msg_pos' = k
          /\ IF la < 0
             THEN IF msg_idx = current_msg_idx
                  THEN /\ collected_items' =
                            Append(collected_items,
                                   Block(msg_idx, focal_selected_lines(lines, la)))
                       /\ lines_available' = la
                       /\ mpc' = "returned"
                  ELSE IF msg_idx < current_msg_idx
                  THEN /\ collected_items' =
                            Append(pop_first(collected_items), Block(msg_idx, lines))
                       /\ lines_available' = la + needed_lines
                       /\ mpc' = continue
                  ELSE /\ collected_items' =
                            IF Len(after_selected_lines(lines, la)) > 0
                            THEN Append(collected_items,
                                        Block(msg_idx, after_selected_lines(lines, la)))
                            ELSE collected_items
                       /\ lines_available' = la
                       /\ mpc' = "returned"
             ELSE /\ collected_items' = Append(collected_items, Block(msg_idx, lines))
                  /\ lines_available' = la
                  /\ mpc' = continue
    /\ UNCHANGED <<msgs, current_msg_idx, h, LATEST_MSG_ON_TOP>>

InitMsgs ==
    /\ \E n \in 1..MaxMsgs : msgs \in [1..n -> 1..MaxHeight]
    /\ current_msg_idx \in 0..(Len(msgs) - 1)
    /\ h \in HeaderHeight..(HeaderHeight + MaxRows)
    /\ LATEST_MSG_ON_TOP \in BOOLEAN
    /\ mpc = "idle" /\ collected_items = <<>> /\ lines_available = 0 /\ msg_pos = 0
    /\ layout_mapping = FALSE /\ legacy_locale = FALSE
    /\ KeysIdle /\ FlagsIdle /\ FormatIdle /\ ChatsIdle

NextMsgs ==
    \/ (CollectCall /\ UNCHANGED <<kvars, fvars, rvars, cvars>>)
    \/ (CollectStep /\ UNCHANGED <<kvars, fvars, rvars, cvars>>)

SpecMsgs == InitMsgs /\ [][NextMsgs]_vars

(***************************************************************************)
(* Claims about MsgView._collect_msgs_to_draw (checked under SpecMsgs)     *)
(***************************************************************************)
\* the row budget R
RowBudget == h - HeaderHeight

RECURSIVE TotalLines(_)
TotalLines(items) ==
    IF items = <<>> THEN 0 ELSE Len(Head(items).lines) + TotalLines(Tail(items))

\* C1: the returned blocks hold at most R lines in total
C1_AtMostBudget == mpc = "returned" => TotalLines(collected_items) <= RowBudget

\* C2: with R > 0 the returned window holds at least one line of the focal block
C2_FocalLinePresent ==
    (mpc = "returned" /\ RowBudget > 0)
    => \E k \in 1..Len(collected_items) :
          /\ collected_items[k].idx = current_msg_idx
          /\ Len(collected_items[k].lines) >= 1

\* C7: the collected blocks are a contiguous run of the input in input order,
\* every block but the first and the last is whole, and every block is a
\* contiguous slice of its lines in their order
C7_ContiguousRun ==
    /\ \A k \in 1..Len(collected_items) :
          LET b == collected_items[k]
          IN /\ b.idx + 1 \in 1..Len(msgs)
             /\ \E lo \in 1..(msgs[b.idx + 1] + 1) : \E hi \in 0..msgs[b.idx + 1] :
                    b.lines = SubSeq(msg_lines(b.idx + 1), lo, hi)
    /\ \A k \in 1..(Len(collected_items) - 1) :
          collected_items[k + 1].idx = collected_items[k].idx + 1
    /\ \A k \in 2..(Len(collected_items) - 1) :
          collected_items[k].lines = msg_lines(collected_items[k].idx + 1)

\* a window returned after an eviction: three blocks, the last one trimmed
C7_Witness ==
    /\ mpc = "returned"
    /\ Len(collected_items) >= 3
    /\ collected_items[1].idx > 0
    /\ LET b == collected_items[Len(collected_items)]
       IN Len(b.lines) > 0 /\ Len(b.lines) < msgs[b.idx + 1]

\* C9: a block after the focal one that does not fit is kept cut down to the
\* rows that remain (none when no row remains): its leading lines with
\* LATEST_MSG_ON_TOP, its trailing lines otherwise
C9_AfterBlockCutToFit ==
    (mpc = "returned" /\ lines_available < 0 /\ msg_idx_at(msg_pos) > current_msg_idx)
    => LET full == msg_lines(msg_pos)
           remaining == lines_available + Len(full)
           last == collected_items[Len(collected_items)]
           kept == IF collected_items # <<>> /\ last.idx = msg_idx_at(msg_pos)
                   THEN last.lines ELSE <<>>
       IN kept = IF LATEST_MSG_ON_TOP
                 THEN SubSeq(full, 1, remaining)
                 ELSE SubSeq(full, Len(full) - remaining + 1, Len(full))

\* C10: once a block before the focal one has been evicted, and while only
\* blocks before the focal one have been taken, the remaining budget is R
\* minus the lines of the blocks still collected
C10_BudgetMatchesCollected ==
    (/\ mpc = "loop" /\ msg_pos >= 1 /\ msg_idx_at(msg_pos) < current_msg_idx
     /\ collected_items # <<>> /\ collected_items[1].idx > 0)
    => lines_available = RowBudget - TotalLines(collected_items)

(***************************************************************************)
(* ChatView.draw                                                           *)
(***************************************************************************)
MaxChats == 5
MaxChatRows == 7

\* ChatFormatter.height
ChatHeight == 2

\* header_height = len(header_lines): HeaderFormatter.format returns 2 lines
header_height == Len(<<"title", "rule">>)

\* int(x / 2): Python's int() cuts towards zero
int_half(x) == IF x >= 0 THEN x \div 2 ELSE 0 - ((0 - x) \div 2)

\* Python's s[a:b] for a >= 0 and b >= 0
Slice(s, a, b) == SubSeq(s, a + 1, Min(b, Len(s)))

\* variant: the offset one short
chat_offset_short(cur, lim) == IF cur >= lim THEN cur - lim ELSE 0

\* offset = 0; if current >= limit: offset = current - limit + 1
chat_offset(cur, lim) == IF cur >= lim THEN cur - lim + 1 ELSE 0

\* utils.enumerate2(xs, start, step): the k-th item (from 0) gets start + k * step
enumerate2_num(k, start, step) == start + k * step

\* variant: the selected row found without the offset
is_selected_no_offset(line_num, cur, off) ==
    line_num = cur * ChatHeight + header_height

\* is_selected = line_num == (current - offset) * height + header_height
is_selected_row(line_num, cur, off) ==
    line_num = (cur - off) * ChatHeight + header_height

\* ChatFormatter.format returns [first_line, second_line]
chat_lines == <<"first_line", "second_line">>

\* draw_lines(line_num, lines): one row per line, from line_num downwards
draw_lines_rows(line_num, lines) == [j \in 1..Len(lines) |-> line_num + j - 1]

\* the items the loop goes over
chats_slice == Slice(chats, offset, limit + offset)

\* lines 225-243: the title is drawn, offset and limit are computed
DrawCall ==
    /\ cpc = "idle"
    /\ limit' = int_half(chat_h - header_height)
    /\ offset' = chat_offset(current, limit')
    /\ chat_pos' = 0
    /\ drawn' = <<>>
    /\ cpc' = "loop"
    /\ UNCHANGED <<chats, current, chat_h>>

\* one iteration of the loop of lines 244-248
DrawChat ==
    /\ cpc = "loop"
    /\ chat_pos < Len(chats_slice)
    /\ LET line_num == enumerate2_num(chat_pos, header_height, ChatHeight)
       IN drawn' = Append(drawn,
                          [chat |-> chats_slice[chat_pos + 1],
                           rows |-> draw_lines_rows(line_num, chat_lines),
                           is_selected |-> is_selected_row(line_num, current, offset)])
    /\ chat_pos' = chat_pos + 1
    /\ UNCHANGED <<cpc, chats, current, chat_h, offset, limit>>

\* the loop is over: self._refresh()
DrawRefresh ==
    /\ cpc = "loop"
    /\ chat_pos >= Len(chats_slice)
    /\ cpc' = "drawn"
    /\ UNCHANGED <<chats, current, chat_h, offset, limit, chat_pos, drawn>>

InitChats ==
    /\ \E n \in 0..MaxChats : chats = [k \in 1..n |-> k - 1]
    /\ current \in 0..Max(Len(chats) - 1, 0)
    /\ chat_h \in 0..(header_height + MaxChatRows)
    /\ cpc = "idle" /\ offset = 0 /\ limit = 0 /\ chat_pos = 0 /\ drawn = <<>>
    /\ layout_mapping = FALSE /\ legacy_locale = FALSE
    /\ KeysIdle /\ MsgsIdle /\ FlagsIdle /\ FormatIdle

NextChats ==
    \/ (DrawCall /\ UNCHANGED <<kvars, mvars, fvars, rvars>>)
    \/ (DrawChat /\ UNCHANGED <<kvars, mvars, fvars, rvars>>)
    \/ (DrawRefresh /\ UNCHANGED <<kvars, mvars, fvars, rvars>>)

SpecChats == InitChats /\ [][NextChats]_vars

(***************************************************************************)
(* Claims about ChatView.draw (checked under SpecChats)                    *)
(***************************************************************************)
\* R: the view height minus the header rows
ChatRowBudget == chat_h - header_height

\* the chats drawn, as list indices
DrawnChats == {drawn[k].chat : k \in 1..Len(drawn)}

\* the chats at the indices from .. from + count - 1 that exist in the list
ExistingFrom(from, count) ==
    {j \in from..(from + count - 1) : j >= 0 /\ j < Len(chats)}

\* C14 as stated: the chats drawn are those at offset .. offset + floor(R/H) - 1
\* with offset = max(0, i - floor(R/(2H)) + 1)
C14_CenteredWindow ==
    cpc = "drawn"
    => DrawnChats =
         ExistingFrom(Max(0, current - (ChatRowBudget \div (2 * ChatHeight)) + 1),
                      ChatRowBudget \div ChatHeight)

\* C14 amended: the chats drawn are those at offset .. offset + floor(R/H) - 1
\* with offset = max(0, i - floor(R/H) + 1), each once, in list order
C14_BottomWindow ==
    cpc = "drawn"
    => /\ DrawnChats =
            ExistingFrom(Max(0, current - (ChatRowBudget \div ChatHeight) + 1),
                         ChatRowBudget \div ChatHeight)
       /\ \A k \in 1..(Len(drawn) - 1) : drawn[k + 1].chat = drawn[k].chat + 1

\* 6 rows, focal chat 4: a window of 3 chats that ends with the focal chat
C14_Witness ==
    /\ cpc = "drawn" /\ ChatRowBudget = 6 /\ current = 4
    /\ DrawnChats = {2, 3, 4}

\* C15: with floor(R/2) >= 1 and the focal index in the list, the focal chat
\* is drawn, it is the one chat drawn as selected, and the rows of every chat
\* drawn are among the R rows below the header
C15_FocalVisibleWholeRows ==
    (cpc = "drawn" /\ ChatRowBudget \div 2 >= 1 /\ current < Len(chats))
    => /\ \E k \in 1..Len(drawn) : drawn[k].chat = current
       /\ \A k \in 1..Len(drawn) : drawn[k].is_selected <=> drawn[k].chat = current
       /\ \A k \in 1..Len(drawn) : \A j \in 1..Len(drawn[k].rows) :
              /\ drawn[k].rows[j] >= header_height
              /\ drawn[k].rows[j] < header_height + ChatRowBudget
       /\ \A k \in 1..Len(drawn) : Len(drawn[k].rows) = ChatHeight

\* an odd budget, a scrolled list: the focal chat is the last one drawn
C15_Witness ==
    /\ cpc = "drawn" /\ ChatRowBudget = 5 /\ current = 3 /\ offset = 2
    /\ Len(drawn) = 2 /\ drawn[2].chat = 3 /\ drawn[2].is_selected

(***************************************************************************)
(* MsgFormatter.flags                                                      *)
(* Flag names and labels are TLA+ strings; the returned string is the      *)
(* sequence of its labels and " " separators.                              *)
(***************************************************************************)
MaxMsgId == 2

UserIds == {1, 2}

\* model.is_me(user_id): the logged-in user has id 1
is_me(user_id) == user_id = 1

SendingStates ==
    {"", "messageSendingStateFailed", "messageSendingStatePending",
     "messageSendingStateOther"}

\* self.states.get(state_type, state_type)
states_get(state_type) ==
    CASE state_type = "messageSendingStateFailed" -> "failed"
      [] state_type = "messageSendingStatePending" -> "pending"
      [] OTHER -> state_type

\* config.MSG_FLAGS.get(flag, flag): an empty table, or one label per flag
MSG_FLAGS_get(configured, flag) ==
    IF ~configured THEN flag
    ELSE CASE flag = "selected" -> "*"
           [] flag = "forwarded" -> "F"
           [] flag = "new" -> "N"
           [] flag = "unseen" -> "U"
           [] flag = "seen" -> "V"
           [] flag = "edited" -> "E"
           [] flag = "pending" -> "..."
           [] flag = "failed" -> "X"
           [] OTHER -> flag

\* " ".join(labels)
RECURSIVE join(_)
join(labels) ==
    IF labels = <<>> THEN <<>>
    ELSE IF Len(labels) = 1 THEN labels
    ELSE <<Head(labels), " ">> \o join(Tail(labels))

\* variant: three independent ifs, "seen" not asking who sent the message
read_flags_independent(m) ==
    (IF ~is_me(m.sender_id) /\ m.msg_id > m.last_read_inbox_message_id
     THEN <<"new">> ELSE <<>>)
    \o (IF is_me(m.sender_id) /\ m.msg_id > m.last_read_outbox_message_id
           /\ ~is_me(m.chat_id)
        THEN <<"unseen">> ELSE <<>>)
    \o (IF m.msg_id <= m.last_read_outbox_message_id THEN <<"seen">> ELSE <<>>)

\* the if / elif / elif of lines 57-72
read_flags(m) ==
    IF ~is_me(m.sender_id) /\ m.msg_id > m.last_read_inbox_message_id
    THEN <<"new">>
    ELSE IF is_me(m.sender_id) /\ m.msg_id > m.last_read_outbox_message_id
    THEN (IF ~is_me(m.chat_id) THEN <<"unseen">> ELSE <<>>)
    ELSE IF is_me(m.sender_id) /\ m.msg_id <= m.last_read_outbox_message_id
    THEN <<"seen">>
    ELSE <<>>

\* the list flags at line 78
flags_list(m) ==
    (IF m.selected THEN <<"selected">> ELSE <<>>)
    \o (IF m.forward THEN <<"forwarded">> ELSE <<>>)
    \o read_flags(m)
    \o (IF m.sending_state # "" THEN <<states_get(m.sending_state)>> ELSE <<>>)
    \o (IF m.edit_date # 0 THEN <<"edited">> ELSE <<>>)

\* the property flags is read
FlagsGet ==
    /\ fpc = "call"
    /\ flags' = flags_list(fin)
    /\ flags_str' =
         join([k \in 1..Len(flags') |-> MSG_FLAGS_get(fin.msg_flags, flags'[k])])
    /\ fpc' = "returned"
    /\ UNCHANGED fin

InitFlags ==
    /\ fin \in [msg_id : 1..MaxMsgId,
                sender_id : UserIds,
                chat_id : UserIds,
                last_read_inbox_message_id : 0..MaxMsgId,
                last_read_outbox_message_id : 0..MaxMsgId,
                selected : BOOLEAN,
                forward : BOOLEAN,
                sending_state : SendingStates,
                edit_date : {0, 1},
                msg_flags : BOOLEAN]
    /\ fpc = "call" /\ flags = <<>> /\ flags_str = <<>>
    /\ layout_mapping = FALSE /\ legacy_locale = FALSE
    /\ KeysIdle /\ MsgsIdle /\ FormatIdle /\ ChatsIdle

NextFlags == FlagsGet /\ UNCHANGED <<kvars, mvars, rvars, cvars>>

SpecFlags == InitFlags /\ [][NextFlags]_vars

(***************************************************************************)
(* MsgFormatter.format, for text messages without web page preview, reply  *)
(* markup or entity links                                                  *)
(***************************************************************************)
MaxWidth == 8

\* "ab", "abcdefghij", "ab\ncd"
Texts == {<<97, 98>>, <<97, 98, 99, 100, 101, 102, 103, 104, 105, 106>>,
          <<97, 98, 10, 99, 100>>}

\* the caption: None, or "x\ny"
Captions == {<<>>, <<120, 10, 121>>}

\* what model.msgs.get_message returns: None, or the replied-to message with
\* its text and its sender's label ("" or "bo")
NoMessage == [found |-> FALSE]
ReplyMessages ==
    {NoMessage}
    \cup [found : {TRUE}, text_content : {<<111, 107>>, <<>>},
          sender : {<<>>, <<98, 111>>}]

\* str.replace("\n", " ")
replace_newlines(str) == [k \in 1..Len(str) |-> IF str[k] = 10 THEN 32 ELSE str[k]]

\* str.split("\n")
RECURSIVE split_lines(_)
split_lines(str) ==
    IF \A k \in 1..Len(str) : str[k] # 10 THEN <<str>>
    ELSE LET p == CHOOSE k \in 1..Len(str) :
                      str[k] = 10 /\ \A j \in 1..(k - 1) : str[j] # 10
         IN <<SubSeq(str, 1, p - 1)>> \o split_lines(SubSeq(str, p + 1, Len(str)))

\* utils.split_string_dwc(line, width): the line cut into pieces of at most
\* width columns (every code point here is one column wide); one empty
\* piece for an empty line
RECURSIVE split_string_dwc(_, _)
split_string_dwc(line, width) ==
    IF Len(line) <= width THEN <<line>>
    ELSE <<SubSeq(line, 1, width)>>
         \o split_string_dwc(SubSeq(line, width + 1, Len(line)), width)

\* self._parse_msg() of a text message: its text content
parse_msg(m) == m.text_content

\* lines 115-128: the header line, then the wrapped body lines
document(msg, width) ==
    <<"header">>
    \o Concat([k \in 1..Len(split_lines(msg)) |->
                  split_string_dwc(split_lines(msg)[k], width)])

\* lines 101-104: msg = self._parse_msg(); the caption; the url
FormatCall ==
    /\ rpc = "call"
    /\ rmsg' = parse_msg(rin)
               \o (IF rin.caption # <<>>
                   THEN <<10>> \o replace_newlines(rin.caption) ELSE <<>>)
    /\ rpc' = "body"
    /\ UNCHANGED <<rin, rdoc>>

\* lines 105-108 and _format_reply_msg: without a reply, or when the lookup
\* fails, msg is kept; when the lookup succeeds, line 173 calls
\* self._parse_msg(reply_msg), and _parse_msg (line 182) takes no argument
\* but self: the call raises TypeError, which format does not catch
FormatReply ==
    /\ rpc = "body"
    /\ IF rin.reply_msg_id # 0 /\ rin.reply.found
       THEN rpc' = "raised"
       ELSE rpc' = "reply"
    /\ UNCHANGED <<rin, rmsg, rdoc>>

\* lines 109-128
FormatFinish ==
    /\ rpc = "reply"
    /\ rdoc' = document(rmsg, rin.width)
    /\ rpc' = "returned"
    /\ UNCHANGED <<rin, rmsg>>

InitFormat ==
    /\ rin \in [text_content : Texts,
                caption : Captions,
                reply_msg_id : {0, 7},
                reply : ReplyMessages,
                width : (MaxWidth - 2)..MaxWidth]
    /\ rpc = "call" /\ rmsg = <<>> /\ rdoc = <<>>
    /\ layout_mapping = FALSE /\ legacy_locale = FALSE
    /\ KeysIdle /\ MsgsIdle /\ FlagsIdle /\ ChatsIdle

NextFormat ==
    \/ (FormatCall /\ UNCHANGED <<kvars, mvars, fvars, cvars>>)
    \/ (FormatReply /\ UNCHANGED <<kvars, mvars, fvars, cvars>>)
    \/ (FormatFinish /\ UNCHANGED <<kvars, mvars, fvars, cvars>>)

SpecFormat == InitFormat /\ [][NextFormat]_vars

(***************************************************************************)
(* Claims about MsgFormatter (checked under SpecFlags and SpecFormat)      *)
(***************************************************************************)
\* the place of a flag in the order selected, forwarded, new/unseen/seen,
\* sending state, edited
FlagRank(flag) ==
    CASE flag = "selected" -> 1
      [] flag = "forwarded" -> 2
      [] flag \in {"new", "unseen", "seen"} -> 3
      [] flag = "edited" -> 5
      [] OTHER -> 4

\* C6: the flags hold at most one of new, unseen, seen and come in the order
\* selected, forwarded, new/unseen/seen, sending state, edited
C6_OneReadFlagInOrder ==
    fpc = "returned"
    => /\ Cardinality({k \in 1..Len(flags) : flags[k] \in {"new", "unseen", "seen"}}) <= 1
       /\ \A j, k \in 1..Len(flags) : j < k => FlagRank(flags[j]) < FlagRank(flags[k])
       /\ Len(flags_str) = IF flags = <<>> THEN 0 ELSE 2 * Len(flags) - 1

\* my own pending, forwarded, edited, selected message the peer has not read
C6_Witness ==
    /\ fpc = "returned"
    /\ flags = <<"selected", "forwarded", "unseen", "pending", "edited">>

\* the preview line "> sender: content", cut and ended with "..." when it
\* would exceed the width
ReplyPreview(sender, content, width) ==
    LET line == <<62, 32>> \o sender \o <<58, 32>> \o content
    IN IF Len(line) > width
       THEN SubSeq(line, 1, width - 3) \o <<46, 46, 46>>
       ELSE line

\* C8: format of a reply never raises; with the replied-to message found the
\* first body line is the preview; with the lookup failed the document is
\* that of the message without the reply
C8_ReplyPreviewOrOmitted ==
    /\ rpc # "raised"
    /\ (rpc = "returned" /\ rin.reply_msg_id # 0 /\ rin.reply.found)
        => rdoc[2] = ReplyPreview(rin.reply.sender, rin.reply.text_content, rin.width)
    /\ (rpc = "returned" /\ rin.reply_msg_id # 0 /\ ~rin.reply.found)
        => rdoc = document(parse_msg(rin)
                           \o (IF rin.caption # <<>>
                               THEN <<10>> \o replace_newlines(rin.caption)
                               ELSE <<>>),
                           rin.width)

(***************************************************************************)
(* Claims about View.get_keys (checked under SpecKeys)                     *)
(***************************************************************************)
\* the raw codes that spell a character: itself below 128, else its two
\* UTF-8 bytes (U+0400..U+047F: lead 208 or 209)
CodesOfChar(char) ==
    IF char < 128 THEN <<char>> ELSE <<192 + (char \div 64), 128 + (char % 64)>>

CodesOf(str) == Concat([k \in 1..Len(str) |-> CodesOfChar(str[k])])

IsDigitString(codes) == \A k \in 1..Len(codes) : codes[k] \in 48..57

RECURSIVE DecimalValue(_)
DecimalValue(codes) ==
    IF codes = <<>> THEN 0
    ELSE LET rest == DecimalValue(Tail(codes))
             RECURSIVE Pow10(_)
             Pow10(n) == IF n = 0 THEN 1 ELSE 10 * Pow10(n - 1)
         IN (Head(codes) - 48) * Pow10(Len(codes) - 1) + rest

\* the positions of read that were read by the first getch of an iteration
RECURSIVE PlainPositions(_, _)
PlainPositions(codes, from) ==
    IF from > Len(codes) THEN {}
    ELSE IF codes[from] \in {208, 209}
         THEN PlainPositions(codes, from + 2)
         ELSE {from} \cup PlainPositions(codes, from + 1)

\* a code curses.unctrl(ch).decode() fails on
CannotDecode(ch) == ch < 0 \/ (legacy_locale /\ (ch % 256) >= 160)

\* C3: once a cycle has read the codes of a digit string D followed by the
\* codes of a table entry B (len(D) + len(B) <= 5), it has returned
\* (decimal value of D, B), (1, B) for an empty D; while it has read only
\* digits (fewer than 5) it has not ended and the digits are the repeat prefix.
C3_DigitsThenBinding ==
    /\ \A b \in 1..Len(MULTICHAR_KEYBINDINGS) : \A k \in 0..Len(read) :
        LET D == SubSeq(read, 1, k)
            B == MULTICHAR_KEYBINDINGS[b]
        IN (/\ IsDigitString(D)
            /\ SubSeq(read, k + 1, Len(read)) = CodesOf(B)
            /\ k + Len(B) <= MAX_KEYBINDING_LENGTH)
           => /\ kpc = "returned"
              /\ kresult = <<IF k = 0 THEN 1 ELSE DecimalValue(D), B>>
    /\ (kpc # "idle" /\ IsDigitString(read) /\ Len(read) < MAX_KEYBINDING_LENGTH)
        => kpc = "getch" /\ repeat_factor = read /\ keys = <<>>

\* "3", "d", "d" has returned (3, "dd")
C3_Witness ==
    kpc = "returned" /\ read = <<51, 100, 100>> /\ kresult = <<3, <<100, 100>>>>

\* C4: a decode cycle never raises
C4_NeverRaises == kpc # "raised"

IsEntry(ks) == \E k \in 1..Len(MULTICHAR_KEYBINDINGS) : MULTICHAR_KEYBINDINGS[k] = ks

IsPrefixOfSome(ks) ==
    \E k \in 1..Len(MULTICHAR_KEYBINDINGS) : startswith(MULTICHAR_KEYBINDINGS[k], ks)

\* the keys are an entry of the table, or can no longer become one
Resolved(ks) == IsEntry(ks) \/ ~IsPrefixOfSome(ks)

\* C11: a step that accumulates a key ends the cycle when the keys are an
\* entry of the table or a prefix of none, and otherwise ends it only when
\* the loop's 5 iterations are used up; no code is read once the keys are
\* an entry or a prefix of none
C11_EndsIffResolved ==
    [][/\ (keys' # keys /\ keys' # <<>>)
            => /\ Resolved(keys') => kpc' = "returned"
               /\ kpc' = "returned"
                    => (Resolved(keys') \/ loop_i = MAX_KEYBINDING_LENGTH)
       /\ Len(read') > Len(read) => (keys = <<>> \/ ~Resolved(keys))]_vars

\* "s" was a strict prefix, so "d" was read, and "sd" ended the cycle
C11_Witness ==
    kpc = "returned" /\ read = <<115, 100>> /\ keys = <<115, 100>>

\* the longest prefix of codes made of digit codes
RECURSIVE LeadingDigits(_)
LeadingDigits(codes) ==
    IF codes = <<>> \/ Head(codes) \notin 48..57 THEN <<>>
    ELSE <<Head(codes)>> \o LeadingDigits(Tail(codes))

\* C12: the repeat prefix is made of the digits read before the first key;
\* a digit read after a key is not added to it
C12_DigitsOnlyBeforeKeys ==
    kpc \in {"getch", "second_getch", "returned"}
    => repeat_factor = LeadingDigits(read)

\* the positions of read that were read by the first getch of a loop iteration
RECURSIVE IterationStarts(_, _)
IterationStarts(codes, from) ==
    IF from > Len(codes) THEN {}
    ELSE {from} \cup IterationStarts(codes, IF codes[from] \in {208, 209}
                                            THEN from + 2 ELSE from + 1)

\* C13 as stated: a cycle (that does not raise) reads at most 5 raw codes
C13_AtMostFiveCodes == kpc # "raised" => Len(read) <= MAX_KEYBINDING_LENGTH

\* C13 amended: a cycle takes at most 5 loop iterations, each reading one
\* raw code, and a second one when the first is 208 or 209
C13_AtMostFiveIterations ==
    /\ Cardinality(IterationStarts(read, 1)) <= MAX_KEYBINDING_LENGTH
    /\ Len(read) <= Cardinality(IterationStarts(read, 1))
                    + Cardinality({p \in IterationStarts(read, 1) : read[p] \in {208, 209}})

\* three digits and two two-byte keys: 5 iterations, 7 codes
C13_Witness ==
    kpc = "returned" /\ loop_i = MAX_KEYBINDING_LENGTH /\ Len(read) = 7

====
